---- MODULE Spec2Model ----
(***************************************************************************)
(* A model of Firestore/core/src/firebase/firestore/model/field_value.cc:  *)
(* the FieldValue tagged union, its lifecycle (SwitchTo, copy, move,       *)
(* destruction, factories) and its ordering (operator<).                   *)
(*                                                                         *)
(* Numbers are scaled down: int64_t becomes a two's complement integer of  *)
(* IntBits bits and double becomes a binary floating point number with a   *)
(* significand of MantBits bits, round-to-nearest-even, with NaN and the   *)
(* two infinities.  IntBits - 1 > MantBits, as 63 > 53, so that LLONG_MAX  *)
(* has no exact double and rounds up to 2^(IntBits-1), as in the source.   *)
(***************************************************************************)
EXTENDS Integers, Sequences, FiniteSets, TLC

VARIABLES a, b, c, res, opc,          \* ordering: operands, results, position
          slots, heap, last, bad       \* lifecycle: objects, storage, last call

vars == <<a, b, c, res, opc, slots, heap, last, bad>>
orderVars == <<a, b, c, res, opc>>
lifeVars == <<slots, heap, last, bad>>

(***************************************************************************)
(* Bounds.                                                                 *)
(***************************************************************************)
MantBits == 3
MaxTime == 1
MaxStrLen == 1
MaxCoord == 1
MaxArrayLen == 2

IntBits == MantBits + 2

RECURSIVE Pow2(_)
Pow2(n) == IF n = 0 THEN 1 ELSE 2 * Pow2(n - 1)

Abs(n) == IF n < 0 THEN 0 - n ELSE n

LLONG_MIN == 0 - Pow2(IntBits - 1)
LLONG_MAX == Pow2(IntBits - 1) - 1
Int64 == LLONG_MIN..LLONG_MAX

(***************************************************************************)
(* double.  A double is an integer code: a finite double is TWICE its      *)
(* value (so that halves are integers), the infinities lie beyond every    *)
(* finite code and NaN is a code of its own.                               *)
(***************************************************************************)
PInf == Pow2(IntBits + 2)
NInf == 0 - PInf
NaN == Pow2(IntBits + 3)

\* n >= 0 fits a significand of MantBits bits
Representable(n) ==
    \E k \in 0..(IntBits + 2) : n % Pow2(k) = 0 /\ n \div Pow2(k) < Pow2(MantBits)

\* finite doubles up to magnitude 2^IntBits, in halves
FiniteDoubles ==
    {m \in (0 - Pow2(IntBits + 1))..Pow2(IntBits + 1) : Representable(Abs(m))}
Doubles == FiniteDoubles \cup {NaN, PInf, NInf}

isnan(d) == d = NaN

\* IEEE-754 operator<, operator== and operator>= : false when either side is NaN
DoubleLt(x, y) == ~isnan(x) /\ ~isnan(y) /\ x < y
DoubleEq(x, y) == ~isnan(x) /\ ~isnan(y) /\ x = y
DoubleGe(x, y) == ~isnan(x) /\ ~isnan(y) /\ x >= y

\* round a magnitude m >= 0 (in halves) to MantBits significant bits, ties to even
RoundMag(m) ==
    IF m < Pow2(MantBits) THEN m
    ELSE LET e == CHOOSE k \in 1..(IntBits + 2) :
                      Pow2(MantBits + k - 1) <= m /\ m < Pow2(MantBits + k)
             u == Pow2(e)
             q == m \div u
             r == m % u
         IN  IF 2 * r < u THEN q * u
             ELSE IF 2 * r > u THEN (q + 1) * u
             ELSE IF q % 2 = 0 THEN q * u ELSE (q + 1) * u

\* static_cast<double>(int64_t)
ToDouble(i) == IF i < 0 THEN 0 - RoundMag(2 * Abs(i)) ELSE RoundMag(2 * i)

\* static_cast<int64_t>(double) of a finite double in range: truncation
ToInt64(d) == IF d < 0 THEN 0 - (Abs(d) \div 2) ELSE d \div 2

(***************************************************************************)
(* LessThan, one overload per pair of number types.                        *)
(***************************************************************************)
LessThanDD(lhs, rhs) ==
    IF DoubleLt(lhs, rhs) THEN TRUE
    ELSE IF DoubleGe(lhs, rhs) THEN FALSE
    ELSE isnan(lhs) /\ ~isnan(rhs)

LessThanDI(lhs, rhs) ==
    IF DoubleLt(lhs, ToDouble(LLONG_MIN)) \/ isnan(lhs) THEN TRUE
    ELSE IF DoubleGe(lhs, ToDouble(LLONG_MAX)) THEN FALSE
    ELSE IF ToInt64(lhs) < rhs THEN TRUE
    ELSE IF ToInt64(lhs) > rhs THEN FALSE
    ELSE LessThanDD(lhs, ToDouble(rhs))

LessThanID(lhs, rhs) ==
    IF LessThanDI(rhs, lhs) THEN FALSE
    ELSE \/ DoubleGe(rhs, ToDouble(LLONG_MAX))
         \/ ~DoubleEq(ToDouble(lhs), rhs)
         \/ ~DoubleEq(ToDouble(lhs), rhs)

(***************************************************************************)
(* FieldValue::Type and payloads.  A payload is described by pod (the      *)
(* scalar members, or the characters of a string or blob), keys (the keys  *)
(* of an object, ascending) and elems (the elements of an array, or the    *)
(* mapped values of an object).                                            *)
(***************************************************************************)
SupportedTypes ==
    {"Null", "Boolean", "Long", "Double", "Timestamp", "ServerTimestamp",
     "String", "Blob", "GeoPoint", "Array", "Object"}
Unsupported == "Unsupported"
AllTypes == SupportedTypes \cup {Unsupported}

\* the enumerators' values; Unsupported stands for a value after the last one
TypeOrder(t) ==
    CASE t = "Null" -> 0
      [] t = "Boolean" -> 1
      [] t = "Long" -> 2
      [] t = "Double" -> 3
      [] t = "Timestamp" -> 4
      [] t = "ServerTimestamp" -> 5
      [] t = "String" -> 6
      [] t = "Blob" -> 7
      [] t = "GeoPoint" -> 8
      [] t = "Array" -> 9
      [] t = "Object" -> 10
      [] OTHER -> 11

\* operator< of the enum class
TypeLess(lhs, rhs) == TypeOrder(lhs) < TypeOrder(rhs)

Val(t, pod, keys, elems) == [tag |-> t, pod |-> pod, keys |-> keys, elems |-> elems]
Scalar(t, pod) == Val(t, pod, <<>>, <<>>)

Comparable_SameOnly(lhs, rhs) == lhs = rhs

Comparable(lhs, rhs) ==
    CASE lhs \in {"Long", "Double"} -> rhs = "Long" \/ rhs = "Double"
      [] lhs \in {"Timestamp", "ServerTimestamp"} ->
             rhs = "Timestamp" \/ rhs = "ServerTimestamp"
      [] OTHER -> lhs = rhs

\* std::string::compare(...) < 0 and Blob's operator< : lexicographic
RECURSIVE BytesLess(_, _)
BytesLess(xs, ys) ==
    IF xs = <<>> THEN ys # <<>>
    ELSE IF ys = <<>> THEN FALSE
    ELSE IF Head(xs) < Head(ys) THEN TRUE
    ELSE IF Head(ys) < Head(xs) THEN FALSE
    ELSE BytesLess(Tail(xs), Tail(ys))

\* Timestamp's operator< : (seconds, nanoseconds)
TimestampLess(x, y) == x[1] < y[1] \/ (x[1] = y[1] /\ x[2] < y[2])

\* GeoPoint's operator< : (latitude, longitude)
GeoPointLess(x, y) == x[1] < y[1] \/ (x[1] = y[1] /\ x[2] < y[2])

\* ServerTimestamp::local and ::previous of a pod <<ls, ln, ps, pn>>
Local(pod) == <<pod[1], pod[2]>>
Previous(pod) == <<pod[3], pod[4]>>

RECURSIVE Less(_, _), VectorLess(_, _), MapLess(_, _, _, _)

\* operator< of std::vector<const FieldValue> : std::lexicographical_compare
VectorLess(xs, ys) ==
    IF xs = <<>> THEN ys # <<>>
    ELSE IF ys = <<>> THEN FALSE
    ELSE IF Less(Head(xs), Head(ys)) THEN TRUE
    ELSE IF Less(Head(ys), Head(xs)) THEN FALSE
    ELSE VectorLess(Tail(xs), Tail(ys))

\* operator< of std::map<const std::string, const FieldValue> : lexicographic
\* over the (key, value) pairs, a pair compared by key and then by value
MapLess(ks, xs, ls, ys) ==
    IF ks = <<>> THEN ls # <<>>
    ELSE IF ls = <<>> THEN FALSE
    ELSE IF BytesLess(Head(ks), Head(ls))
            \/ (~BytesLess(Head(ls), Head(ks)) /\ Less(Head(xs), Head(ys))) THEN TRUE
    ELSE IF BytesLess(Head(ls), Head(ks))
            \/ (~BytesLess(Head(ks), Head(ls)) /\ Less(Head(ys), Head(xs))) THEN FALSE
    ELSE MapLess(Tail(ks), Tail(xs), Tail(ls), Tail(ys))

\* operator<, case Type::Long and case Type::Double
NumberLess(lhs, rhs) ==
    IF lhs.tag = "Long"
    THEN IF rhs.tag = "Long" THEN lhs.pod[1] < rhs.pod[1]
         ELSE LessThanID(lhs.pod[1], rhs.pod[1])
    ELSE IF rhs.tag = "Double" THEN LessThanDD(lhs.pod[1], rhs.pod[1])
         ELSE LessThanDI(lhs.pod[1], rhs.pod[1])

TimeLess_ByLocal(lhs, rhs) ==
    IF lhs.tag = "Timestamp"
    THEN IF rhs.tag = "Timestamp" THEN TimestampLess(lhs.pod, rhs.pod)
         ELSE TimestampLess(lhs.pod, Local(rhs.pod))
    ELSE IF rhs.tag = "ServerTimestamp"
         THEN TimestampLess(Local(lhs.pod), Local(rhs.pod))
              \/ (Local(lhs.pod) = Local(rhs.pod)
                  /\ TimestampLess(Previous(lhs.pod), Previous(rhs.pod)))
         ELSE TimestampLess(Local(lhs.pod), rhs.pod)

\* operator<, case Type::Timestamp and case Type::ServerTimestamp
TimeLess(lhs, rhs) ==
    IF lhs.tag = "Timestamp"
    THEN IF rhs.tag = "Timestamp" THEN TimestampLess(lhs.pod, rhs.pod)
         ELSE TRUE
    ELSE IF rhs.tag = "ServerTimestamp"
         THEN TimestampLess(Local(lhs.pod), Local(rhs.pod))
         ELSE FALSE

\* the value operator< returns (FALSE where the assertion does not abort)
Less(lhs, rhs) ==
    IF ~Comparable(lhs.tag, rhs.tag) THEN TypeLess(lhs.tag, rhs.tag)
    ELSE CASE lhs.tag = "Null" -> FALSE
           [] lhs.tag = "Boolean" -> lhs.pod[1] = 0 /\ rhs.pod[1] = 1
           [] lhs.tag \in {"Long", "Double"} -> NumberLess(lhs, rhs)
           [] lhs.tag \in {"Timestamp", "ServerTimestamp"} -> TimeLess(lhs, rhs)
           [] lhs.tag = "String" -> BytesLess(lhs.pod, rhs.pod)
           [] lhs.tag = "Blob" -> BytesLess(lhs.pod, rhs.pod)
           [] lhs.tag = "GeoPoint" -> GeoPointLess(lhs.pod, rhs.pod)
           [] lhs.tag = "Array" -> VectorLess(lhs.elems, rhs.elems)
           [] lhs.tag = "Object" -> MapLess(lhs.keys, lhs.elems, rhs.keys, rhs.elems)
           [] OTHER -> FALSE

\* operator< reaches FIREBASE_ASSERT_MESSAGE_WITH_EXPRESSION(false, ...)
LessAsserts(lhs, rhs) == Comparable(lhs, rhs) /\ lhs \notin SupportedTypes

(***************************************************************************)
(* The values the ordering is applied to.                                  *)
(***************************************************************************)
SeqsUpTo(S, n) == UNION {[1..k -> S] : k \in 0..n}

Strings == SeqsUpTo(1..2, MaxStrLen)
Keys == {<<1>>, <<2>>}
Timestamps == (0..MaxTime) \X (0..MaxTime)
GeoPoints == (0..MaxCoord) \X (0..MaxCoord)

NullV == Scalar("Null", <<>>)
BooleanV(x) == Scalar("Boolean", <<x>>)
LongV(i) == Scalar("Long", <<i>>)
DoubleV(d) == Scalar("Double", <<d>>)
TimestampV(t) == Scalar("Timestamp", t)
ServerTimestampV(l, p) == Scalar("ServerTimestamp", l \o p)
StringV(str) == Scalar("String", str)
BlobV(bytes) == Scalar("Blob", bytes)
GeoPointV(g) == Scalar("GeoPoint", g)
ArrayV(es) == Val("Array", <<>>, <<>>, es)
ObjectV(ks, es) == Val("Object", <<>>, ks, es)

\* the least positive int64_t that static_cast<double> rounds upwards
RoundUpInt == Pow2(MantBits) + 3

Numbers == {LongV(i) : i \in Int64} \cup {DoubleV(d) : d \in Doubles}

Scalars ==
    {NullV} \cup {BooleanV(x) : x \in 0..1} \cup Numbers
    \cup {TimestampV(t) : t \in Timestamps}
    \cup {ServerTimestampV(l, p) : l \in Timestamps, p \in Timestamps}
    \cup {StringV(str) : str \in Strings} \cup {BlobV(str) : str \in Strings}
    \cup {GeoPointV(g) : g \in GeoPoints}

Elements ==
    {LongV(RoundUpInt), LongV(RoundUpInt + 1), DoubleV(2 * (RoundUpInt + 1)),
     NullV, ArrayV(<<>>)}

Ascending(ks) == \A i \in 1..(Len(ks) - 1) : BytesLess(ks[i], ks[i + 1])

Arrays == {ArrayV(es) : es \in SeqsUpTo(Elements, MaxArrayLen)}
Objects ==
    UNION {{ObjectV(ks, es) : es \in [1..Len(ks) -> Elements]} :
               ks \in {k \in SeqsUpTo(Keys, 2) : Ascending(k)}}

Values == Scalars \cup Arrays \cup Objects

\* a smaller set around the integers that lose precision as doubles
NearValues ==
    {NullV, BooleanV(0), BooleanV(1), DoubleV(NaN), LongV(LLONG_MAX),
     DoubleV(2 * (LLONG_MAX + 1)), LongV(RoundUpInt), LongV(RoundUpInt + 1),
     DoubleV(2 * (RoundUpInt + 1)), TimestampV(<<0, 0>>),
     ServerTimestampV(<<0, 0>>, <<0, 0>>), StringV(<<>>), GeoPointV(<<0, 0>>)}
    \cup Arrays \cup Objects

IsNumber(v) == v.tag \in {"Long", "Double"}
IsNaNValue(v) == v.tag = "Double" /\ isnan(v.pod[1])

\* the exact mathematical value of a number that is not NaN, doubled
Exact(v) == IF v.tag = "Long" THEN 2 * v.pod[1] ELSE v.pod[1]

\* the reference order of numbers: NaN below everything else, NaN equal to NaN
RefLess(x, y) ==
    IF IsNaNValue(x) THEN ~IsNaNValue(y)
    ELSE IF IsNaNValue(y) THEN FALSE
    ELSE Exact(x) < Exact(y)

(***************************************************************************)
(* Ordering: the operands are drawn and operator< is applied to each       *)
(* ordered pair of them.                                                   *)
(***************************************************************************)
NoRes == [ab |-> FALSE, ba |-> FALSE, bc |-> FALSE, cb |-> FALSE,
          ac |-> FALSE, ca |-> FALSE, aa |-> FALSE, cmp |-> FALSE]

LifeIdle ==
    /\ slots = <<>> /\ heap = <<>> /\ last = <<>> /\ bad = "ok"
Compare ==
    /\ opc = "init"
    /\ res' = [ab |-> Less(a, b), ba |-> Less(b, a), bc |-> Less(b, c),
               cb |-> Less(c, b), ac |-> Less(a, c), ca |-> Less(c, a),
               aa |-> Less(a, a), cmp |-> Comparable(a.tag, b.tag)]
    /\ opc' = "done"
    /\ UNCHANGED <<a, b, c, lifeVars>>

InitPair ==
    /\ a \in Values /\ b \in Values /\ c = NullV
    /\ res = NoRes /\ opc = "init"
    /\ LifeIdle

InitTriple ==
    /\ a \in NearValues /\ b \in NearValues /\ c \in NearValues
    /\ res = NoRes /\ opc = "init"
    /\ LifeIdle

SpecPair == InitPair /\ [][Compare]_vars
SpecTriple == InitTriple /\ [][Compare]_vars

(***************************************************************************)
(* Claims about the ordering.                                              *)
(***************************************************************************)
Equal(xy, yx) == ~xy /\ ~yx

\* C1: operator< is a strict total order: a<a never holds, a<b excludes b<a
\* (so exactly one of a<b, b<a, a==b holds), and a<b and b<c imply a<c.
C1_TotalOrder ==
    opc = "done" =>
        /\ ~res.aa
        /\ ~(res.ab /\ res.ba)
        /\ (res.ab /\ res.bc => res.ac)

\* C2: on every pair of numbers operator< agrees with the reference order
\* (NaN below every other number, otherwise the exact mathematical values).
C2_NumericExact ==
    opc = "done" /\ IsNumber(a) /\ IsNumber(b) =>
        /\ res.ab = RefLess(a, b)
        /\ res.ba = RefLess(b, a)

\* C3: the equality derived from operator< is transitive, and equal values
\* can be substituted on the left of operator<.
C3_EqualityConsistent ==
    opc = "done" =>
        /\ (Equal(res.ab, res.ba) /\ Equal(res.bc, res.cb) => Equal(res.ac, res.ca))
        /\ (Equal(res.ab, res.ba) /\ res.bc => res.ac)

\* the claim's own statement of which kinds are comparable, and of the
\* precedence slots
ClaimComparable(s, t) ==
    \/ s = t
    \/ {s, t} = {"Long", "Double"}
    \/ {s, t} = {"Timestamp", "ServerTimestamp"}

PrecedenceSlot(t) ==
    CASE t = "Null" -> 0
      [] t = "Boolean" -> 1
      [] t \in {"Long", "Double"} -> 2
      [] t \in {"Timestamp", "ServerTimestamp"} -> 3
      [] t = "String" -> 4
      [] t = "Blob" -> 5
      [] t = "GeoPoint" -> 6
      [] t = "Array" -> 7
      [] t = "Object" -> 8

\* C4: two kinds are comparable exactly when they are identical, Long and
\* Double, or Timestamp and ServerTimestamp; values of kinds that are not
\* comparable are ordered by the precedence of their kinds alone.
C4_KindPrecedence ==
    opc = "done" =>
        /\ res.cmp <=> ClaimComparable(a.tag, b.tag)
        /\ ~ClaimComparable(a.tag, b.tag) =>
               (res.ab <=> PrecedenceSlot(a.tag) < PrecedenceSlot(b.tag))

\* a non-empty String compared with an empty Blob, and a Double with a Long
C4_Witness ==
    /\ opc = "done"
    /\ a.tag = "String" /\ a.pod # <<>> /\ b.tag = "Blob" /\ b.pod = <<>>
    /\ res.ab /\ ~res.ba

\* C8: a Timestamp is less than every ServerTimestamp and never the other
\* way round; two ServerTimestamps are ordered by local alone.
C8_ServerTimestampOrder ==
    opc = "done" =>
        /\ a.tag = "Timestamp" /\ b.tag = "ServerTimestamp" => res.ab /\ ~res.ba
        /\ a.tag = "ServerTimestamp" /\ b.tag = "ServerTimestamp" =>
               (res.ab <=> TimestampLess(Local(a.pod), Local(b.pod)))
        /\ a.tag = "ServerTimestamp" /\ b.tag = "ServerTimestamp"
               /\ Local(a.pod) = Local(b.pod) => Equal(res.ab, res.ba)

\* a Timestamp later than a ServerTimestamp's local is still less than it
C8_Witness ==
    /\ opc = "done"
    /\ a.tag = "Timestamp" /\ b.tag = "ServerTimestamp"
    /\ TimestampLess(Local(b.pod), a.pod)
    /\ Previous(b.pod) # Local(b.pod)
    /\ res.ab /\ ~res.ba

(***************************************************************************)
(* Lifecycle.  A FieldValue object is [alive, tag, pod, ref, live]: tag is *)
(* tag_, pod the scalar members of the union, ref the storage that the     *)
(* std::string, Blob, std::vector or std::map member owns (0 when there is *)
(* none) and live the union member that has been constructed and not yet   *)
(* destructed.  heap maps each storage to its state and contents.          *)
(***************************************************************************)
Slots == {"x", "y"}
MaxAllocs == 5
MaxElems == 1
MaxDepth == 1

Ids == 1..MaxAllocs

NoMember == "none"

\* the union member that `new` and the explicit destructor calls act on
Member(t) ==
    CASE t = "Timestamp" -> "timestamp_value_"
      [] t = "ServerTimestamp" -> "server_timestamp_value_"
      [] t = "String" -> "string_value_"
      [] t = "Blob" -> "blob_value_"
      [] t = "GeoPoint" -> "geo_point_value_"
      [] t = "Array" -> "array_value_"
      [] t = "Object" -> "object_value_"
      [] OTHER -> NoMember

Owning == {"String", "Blob", "Array", "Object"}

Obj(t, pod, ref, live) ==
    [alive |-> TRUE, tag |-> t, pod |-> pod, ref |-> ref, live |-> live]

\* a default-constructed FieldValue: tag_ is Type::Null
FreshNull == Obj("Null", <<>>, 0, NoMember)
Dead == [FreshNull EXCEPT !.alive = FALSE]

FreeCell == [st |-> "free", pod |-> <<>>, keys |-> <<>>, elems |-> <<>>]
LiveCell(pod, keys, elems) ==
    [st |-> "live", pod |-> pod, keys |-> keys, elems |-> elems]

\* the memory a call works on: the heap, the first misuse seen, whether the
\* call ran out of storage, and how many storages it released
Mem(h, bd) == [heap |-> h, bad |-> bd, oom |-> FALSE, rel |-> 0]
Mark(m, what) == IF m.bad = "ok" THEN [m EXCEPT !.bad = what] ELSE m
Cell(m, id) == IF id \in DOMAIN m.heap THEN m.heap[id] ELSE FreeCell
IsLive(m, id) == Cell(m, id).st = "live"
SetCell(m, id, cell) ==
    IF id \in DOMAIN m.heap THEN [m EXCEPT !.heap[id] = cell] ELSE m

Min(S) == CHOOSE x \in S : \A y \in S : x <= y

\* construct a std::string, Blob, std::vector or std::map with these contents
Alloc(m, pod, keys, elems) ==
    LET free == {i \in DOMAIN m.heap : m.heap[i].st = "free"}
    IN  IF free = {} THEN [id |-> 0, m |-> [m EXCEPT !.oom = TRUE]]
        ELSE [id |-> Min(free),
              m |-> SetCell(m, Min(free), LiveCell(pod, keys, elems))]

RECURSIVE SwitchTo(_, _, _), DestroyStorage(_, _), DestroyAll(_, _),
          DestroyPayload(_, _)

\* the destructor of each element of a container, first to last
DestroyAll(es, m) ==
    IF es = <<>> THEN m
    ELSE DestroyAll(Tail(es), SwitchTo(Head(es), "Null", m).m)

\* ~basic_string(), ~Blob(), ~vector(), ~map(): the elements and the storage
DestroyStorage(m, id) ==
    IF id = 0 THEN m
    ELSE IF ~IsLive(m, id) THEN Mark(m, "destroyed twice")
    ELSE LET m1 == DestroyAll(Cell(m, id).elems, m)
         IN  [SetCell(m1, id, FreeCell) EXCEPT !.rel = @ + 1]

\* SwitchTo, first switch: destruct the member the old tag names
DestroyPayload(v, m) ==
    CASE v.tag \in {"Timestamp", "ServerTimestamp", "GeoPoint"} ->
             IF v.live = Member(v.tag) THEN m ELSE Mark(m, "wrong member")
      [] v.tag \in Owning ->
             IF v.live = Member(v.tag) THEN DestroyStorage(m, v.ref)
             ELSE Mark(m, "wrong member")
      [] OTHER -> m

DefaultPod_Now(t) ==
    CASE t = "Timestamp" -> <<0, 0>>
      [] t = "ServerTimestamp" -> <<1, 0, 0, 0>>
      [] t = "GeoPoint" -> <<0, 0>>
      [] OTHER -> <<>>

\* Timestamp(0, 0), {Timestamp::Origin(), Timestamp::Origin()}, GeoPoint(0, 0)
DefaultPod(t) ==
    CASE t = "Timestamp" -> <<0, 0>>
      [] t = "ServerTimestamp" -> <<0, 0, 0, 0>>
      [] t = "GeoPoint" -> <<0, 0>>
      [] OTHER -> <<>>

\* SwitchTo, second switch: construct the member the new tag names.  The
\* members of Boolean, Long and Double are left indeterminate (pod <<>>).
ConstructPayload(t, m) ==
    IF t \in Owning
    THEN LET r == Alloc(m, <<>>, <<>>, <<>>)
         IN  [v |-> Obj(t, <<>>, r.id, Member(t)), m |-> r.m]
    ELSE [v |-> Obj(t, DefaultPod(t), 0, Member(t)), m |-> m]

SwitchTo(v, type, m) ==
    IF v.tag = type THEN [v |-> v, m |-> m]
    ELSE ConstructPayload(type, DestroyPayload(v, m))

\* std::swap / swap() of the two std::string, Blob, std::vector or std::map
\* members: the storages change hands
SwapRefs_Alias(d, s) == [d |-> [d EXCEPT !.ref = s.ref], s |-> s]

SwapRefs(d, s) == [d |-> [d EXCEPT !.ref = s.ref], s |-> [s EXCEPT !.ref = d.ref]]

RECURSIVE CopyAssign(_, _, _), CopyAll(_, _), CopyRest(_, _)

\* the copy constructor of each element of a container, first to last
CopyAll(es, m) ==
    IF es = <<>> THEN [es |-> <<>>, m |-> m]
    ELSE CopyRest(CopyAssign(FreshNull, Head(es), m), Tail(es))

Prepend(v, r) == [es |-> <<v>> \o r.es, m |-> r.m]
CopyRest(r1, rest) == Prepend(r1.v, CopyAll(rest, r1.m))

\* new storage for a copy of the container in cell src, its elements copied
AllocCopy(src, r) ==
    LET al == Alloc(r.m, src.pod, src.keys, r.es)
    IN  [id |-> al.id, m |-> IF src.st = "live" THEN al.m ELSE Mark(al.m, "dangling")]

ContainerCopy_SameElements(ref, m) ==
    AllocCopy(Cell(m, ref), [es |-> Cell(m, ref).elems, m |-> m])

\* the copy constructor of std::vector and std::map: new storage holding
\* copies of the elements
ContainerCopy(ref, m) == AllocCopy(Cell(m, ref), CopyAll(Cell(m, ref).elems, m))

\* operator=(const std::string&) and Blob's copy assignment: the characters
\* are copied into the destination's own storage
AssignBytes(d, s, m) ==
    IF IsLive(m, d.ref) /\ IsLive(m, s.ref)
    THEN SetCell(m, d.ref, LiveCell(Cell(m, s.ref).pod, <<>>, <<>>))
    ELSE Mark(m, "dangling")

Returned(v, m) == [v |-> v, m |-> m, asserted |-> FALSE]

\* copy-and-swap: std::swap(array_value_, tmp), then tmp is destroyed
SwapWithCopy(d, tmp) ==
    LET sw == SwapRefs(d, [d EXCEPT !.ref = tmp.id])
    IN  Returned(sw.d, DestroyStorage(tmp.m, sw.s.ref))

\* operator=(const FieldValue&) after SwitchTo(value.tag_), which gave r: the
\* switch is on this->tag_ and reads the member of `value` that it names
CopyPayload(r, src) ==
    LET d == r.v
        m1 == IF Member(d.tag) # Member(src.tag) THEN Mark(r.m, "wrong member") ELSE r.m
    IN  CASE d.tag = "Null" -> Returned(d, r.m)
          [] d.tag \in {"Boolean", "Long", "Double", "Timestamp", "ServerTimestamp",
                        "GeoPoint"} -> Returned([d EXCEPT !.pod = src.pod], m1)
          [] d.tag \in {"String", "Blob"} -> Returned(d, AssignBytes(d, src, m1))
          [] d.tag \in {"Array", "Object"} ->
                 SwapWithCopy(d, ContainerCopy(src.ref, m1))
          [] OTHER -> [v |-> d, m |-> r.m, asserted |-> TRUE]

\* FieldValue::operator=(const FieldValue&)
CopyAssign(dst, src, m) == CopyPayload(SwitchTo(dst, src.tag, m), src)

\* operator=(FieldValue&&), cases String, Blob, Array and Object, after
\* SwitchTo, which gave r
MovePayload(r, src) ==
    LET sw == SwapRefs(r.v, src)
    IN  [d |-> sw.d, s |-> sw.s, m |-> r.m, asserted |-> FALSE]

\* operator=(FieldValue&&), default: return *this = value
MoveByCopy(r, src) == [d |-> r.v, s |-> src, m |-> r.m, asserted |-> r.asserted]

MoveAssign_ByCopy(dst, src, m) == MoveByCopy(CopyAssign(dst, src, m), src)

\* FieldValue::operator=(FieldValue&&)
MoveAssign(dst, src, m) ==
    IF src.tag \in Owning
    THEN MovePayload(SwitchTo(dst, src.tag, m), src)
    ELSE MoveByCopy(CopyAssign(dst, src, m), src)

\* FieldValue::FieldValue(const FieldValue&) and FieldValue(FieldValue&&)
CopyConstruct(src, m) == CopyAssign(FreshNull, src, m)
MoveConstruct(src, m) == MoveAssign(FreshNull, src, m)

\* FieldValue::~FieldValue()
Destruct(v, m) == Returned(Dead, SwitchTo(v, "Null", m).m)

(***************************************************************************)
(* Factories.                                                              *)
(***************************************************************************)
WithPod(r, pod) == Returned([r.v EXCEPT !.pod = pod], r.m)

IntegerValue(value, m) == WithPod(SwitchTo(FreshNull, "Long", m), <<value>>)
DoubleValue(value, m) == WithPod(SwitchTo(FreshNull, "Double", m), <<value>>)
TimestampValue(value, m) == WithPod(SwitchTo(FreshNull, "Timestamp", m), value)
ServerTimestampValue(local, previous, m) ==
    WithPod(SwitchTo(FreshNull, "ServerTimestamp", m), local \o previous)
GeoPointValue(value, m) == WithPod(SwitchTo(FreshNull, "GeoPoint", m), value)

\* the swap of the result's member with the argument; on return the argument,
\* a local copy, is destroyed with what the swap left in it
TakeArgument(r, arg) ==
    LET sw == SwapRefs(r.v, [r.v EXCEPT !.ref = arg])
    IN  Returned(sw.d, DestroyStorage(r.m, sw.s.ref))

\* StringValue(std::string&&), BlobValue(Blob&&), ArrayValue(std::vector&&) and
\* ObjectValue(std::map&&), called with the local copy
ValueMove(type, copy) == TakeArgument(SwitchTo(FreshNull, type, copy.m), copy.id)

\* StringValue(const std::string&) and BlobValue(const Blob&)
StringValue(value, m) == ValueMove("String", Alloc(m, value, <<>>, <<>>))
BlobValue(value, m) == ValueMove("Blob", Alloc(m, value, <<>>, <<>>))

\* the copy constructor of the std::vector or std::map argument
CopyArgument(keys, r) == Alloc(r.m, <<>>, keys, r.es)

\* ArrayValue(const std::vector&) and ObjectValue(const std::map&)
ArrayValue(value, m) == ValueMove("Array", CopyArgument(<<>>, CopyAll(value, m)))
ObjectValue(keys, value, m) ==
    ValueMove("Object", CopyArgument(keys, CopyAll(value, m)))

(***************************************************************************)
(* What a value holds, and which storages it owns.                         *)
(***************************************************************************)
HCell(h, id) == IF id \in DOMAIN h THEN h[id] ELSE FreeCell

RECURSIVE AbsOf(_, _)
AbsOf(v, h) ==
    CASE v.tag \in {"String", "Blob"} -> Scalar(v.tag, HCell(h, v.ref).pod)
      [] v.tag \in {"Array", "Object"} ->
             LET cell == HCell(h, v.ref)
             IN  Val(v.tag, <<>>, cell.keys,
                     [i \in 1..Len(cell.elems) |-> AbsOf(cell.elems[i], h)])
      [] OTHER -> Scalar(v.tag, v.pod)

\* how deeply containers are nested in a value
RECURSIVE DepthOf(_, _), DepthAll(_, _)
DepthAll(es, h) ==
    IF es = <<>> THEN 0
    ELSE LET x == DepthOf(Head(es), h)
             y == DepthAll(Tail(es), h)
         IN  IF x > y THEN x ELSE y
DepthOf(v, h) ==
    IF v.tag \in {"Array", "Object"} THEN 1 + DepthAll(HCell(h, v.ref).elems, h) ELSE 0

RECURSIVE RefsOf(_, _), RefsAll(_, _)
RefsAll(es, h) ==
    IF es = <<>> THEN <<>> ELSE RefsOf(Head(es), h) \o RefsAll(Tail(es), h)
RefsOf(v, h) ==
    IF v.tag \in Owning
    THEN <<v.ref>> \o (IF HCell(h, v.ref).st = "live"
                        THEN RefsAll(HCell(h, v.ref).elems, h) ELSE <<>>)
    ELSE <<>>

(***************************************************************************)
(* Lifecycle: the calls a program makes on two FieldValue objects.  last   *)
(* records the call just made: its name, destination, source, the kind it  *)
(* asked for, the storages it released, whether an unsupported tag reached *)
(* it, and how it ended.                                                   *)
(***************************************************************************)
\* the arguments of the factories: the lifecycle never looks into a payload,
\* so one value per kind that differs from the kind's default payload
LifeNumbers == {1}
LifeTimes == {<<1, 0>>}
LifeBytes == {<<1>>}
KeySeqs == {k \in SeqsUpTo({<<i>> : i \in 1..MaxElems}, MaxElems) : Ascending(k)}

M0 == Mem(heap, bad)
Ready == opc = "idle" /\ bad = "ok" /\ last.ret = "returned"
AliveSlots == {s \in Slots : slots[s].alive}

Call(op, dst, src, arg, r) ==
    [op |-> op, dst |-> dst, src |-> src, arg |-> arg, rel |-> r.m.rel,
     uns |-> Unsupported \in {arg, slots[dst].tag, slots[src].tag},
     ret |-> IF r.asserted THEN "asserted" ELSE "returned"]

\* the call leaves r.v in dst
Commit(op, dst, src, arg, r) ==
    /\ ~r.m.oom
    /\ slots' = [slots EXCEPT ![dst] = r.v]
    /\ heap' = r.m.heap
    /\ bad' = r.m.bad
    /\ last' = Call(op, dst, src, arg, r)
    /\ UNCHANGED orderVars

\* the call leaves r.d in dst and r.s in src (they may be one object)
CommitMove(op, dst, src, r) ==
    /\ ~r.m.oom
    /\ slots' = [[slots EXCEPT ![src] = r.s] EXCEPT ![dst] = r.d]
    /\ heap' = r.m.heap
    /\ bad' = r.m.bad
    /\ last' = Call(op, dst, src, slots[src].tag, r)
    /\ UNCHANGED orderVars

IntegerValueCall ==
    \E s \in Slots \ AliveSlots, i \in LifeNumbers :
        Ready /\ Commit("IntegerValue", s, s, "Long", IntegerValue(i, M0))

DoubleValueCall ==
    \E s \in Slots \ AliveSlots, d \in LifeNumbers :
        Ready /\ Commit("DoubleValue", s, s, "Double", DoubleValue(d, M0))

TimestampValueCall ==
    \E s \in Slots \ AliveSlots, t \in LifeTimes :
        Ready /\ Commit("TimestampValue", s, s, "Timestamp", TimestampValue(t, M0))

ServerTimestampValueCall ==
    \E s \in Slots \ AliveSlots, l \in LifeTimes, p \in LifeTimes :
        Ready /\ Commit("ServerTimestampValue", s, s, "ServerTimestamp",
                        ServerTimestampValue(l, p, M0))

GeoPointValueCall ==
    \E s \in Slots \ AliveSlots, g \in LifeTimes :
        Ready /\ Commit("GeoPointValue", s, s, "GeoPoint", GeoPointValue(g, M0))

StringValueCall ==
    \E s \in Slots \ AliveSlots, str \in LifeBytes :
        Ready /\ Commit("StringValue", s, s, "String", StringValue(str, M0))

BlobValueCall ==
    \E s \in Slots \ AliveSlots, str \in LifeBytes :
        Ready /\ Commit("BlobValue", s, s, "Blob", BlobValue(str, M0))

\* the elements handed to ArrayValue and ObjectValue are values the program
\* holds and that own storage, which a copy has to copy and a destructor has
\* to release: a String, or a container nested no deeper than MaxDepth
NestKinds == {"String", "Array", "Object"}
Nestable ==
    {s \in AliveSlots : slots[s].tag \in NestKinds /\ DepthOf(slots[s], heap) < MaxDepth}

ArrayValueCall ==
    \E s \in Slots \ AliveSlots, from \in SeqsUpTo(Nestable, MaxElems) :
        Ready /\ Commit("ArrayValue", s, s, "Array",
                        ArrayValue([i \in 1..Len(from) |-> slots[from[i]]], M0))

ObjectValueCall ==
    \E s \in Slots \ AliveSlots, ks \in KeySeqs :
        \E from \in [1..Len(ks) -> Nestable] :
            Ready /\ Commit("ObjectValue", s, s, "Object",
                            ObjectValue(ks, [i \in 1..Len(ks) |-> slots[from[i]]], M0))

CopyConstructCall ==
    \E d \in Slots \ AliveSlots, s \in AliveSlots :
        Ready /\ Commit("CopyConstruct", d, s, slots[s].tag, CopyConstruct(slots[s], M0))

CopyAssignCall ==
    \E d \in AliveSlots, s \in AliveSlots :
        Ready /\ Commit("CopyAssign", d, s, slots[s].tag,
                        CopyAssign(slots[d], slots[s], M0))

MoveConstructCall ==
    \E d \in Slots \ AliveSlots, s \in AliveSlots :
        Ready /\ CommitMove("MoveConstruct", d, s, MoveConstruct(slots[s], M0))

MoveAssignCall ==
    \E d \in AliveSlots, s \in AliveSlots :
        Ready /\ CommitMove("MoveAssign", d, s, MoveAssign(slots[d], slots[s], M0))

\* the members of Boolean, Long and Double are not initialized by SwitchTo:
\* any value may be found there
Indeterminate(r) ==
    IF r.v.tag \in {"Boolean", "Long", "Double"} /\ r.v.pod = <<>>
    THEN {Returned([r.v EXCEPT !.pod = <<j>>], r.m) : j \in 0..1}
    ELSE {Returned(r.v, r.m)}

SwitchToIn(objs, types) ==
    \E s \in AliveSlots \cap objs, type \in types :
        \E r \in Indeterminate(SwitchTo(slots[s], type, M0)) :
            Ready /\ Commit("SwitchTo", s, s, type, r)

\* the objects are interchangeable in every other call, so that SwitchTo
\* called on one of them meets every state the other can be in
SwitchToCall == SwitchToIn({"x"}, SupportedTypes)

DestroyCall ==
    \E s \in AliveSlots :
        Ready /\ Commit("Destroy", s, s, "Null", Destruct(slots[s], M0))

NoCall == [op |-> "none", dst |-> "x", src |-> "x", arg |-> "Null", rel |-> 0,
           uns |-> FALSE, ret |-> "returned"]

OrderIdle ==
    /\ a = NullV /\ b = NullV /\ c = NullV /\ res = NoRes /\ opc = "idle"

InitLife ==
    /\ slots = [s \in Slots |-> Dead]
    /\ heap = [i \in Ids |-> FreeCell]
    /\ last = NoCall
    /\ bad = "ok"
    /\ OrderIdle

NextLife ==
    \/ IntegerValueCall \/ DoubleValueCall \/ TimestampValueCall
    \/ ServerTimestampValueCall \/ GeoPointValueCall \/ StringValueCall
    \/ BlobValueCall \/ ArrayValueCall \/ ObjectValueCall
    \/ CopyConstructCall \/ CopyAssignCall \/ MoveConstructCall \/ MoveAssignCall
    \/ SwitchToCall \/ DestroyCall

\* the public operations, and SwitchTo called on its own
SpecLife == InitLife /\ [][NextLife]_vars

(***************************************************************************)
(* Unsupported tags: SwitchTo is given any value of Type, and values are   *)
(* copied, moved and compared.                                             *)
(***************************************************************************)
SwitchToAnyCall == SwitchToIn(Slots, AllTypes)

LessCall ==
    \E l \in AliveSlots, r \in AliveSlots :
        /\ Ready
        /\ res' = [res EXCEPT !.ab = Less(AbsOf(slots[l], heap), AbsOf(slots[r], heap))]
        /\ last' = [op |-> "Less", dst |-> l, src |-> r, arg |-> slots[l].tag,
                    rel |-> 0,
                    uns |-> Unsupported \in {slots[l].tag, slots[r].tag},
                    ret |-> IF LessAsserts(slots[l].tag, slots[r].tag)
                            THEN "asserted" ELSE "returned"]
        /\ UNCHANGED <<a, b, c, opc, slots, heap, bad>>

InitTag ==
    /\ slots = [s \in Slots |-> FreshNull]
    /\ heap = [i \in Ids |-> FreeCell]
    /\ last = NoCall
    /\ bad = "ok"
    /\ OrderIdle

NextTag == SwitchToAnyCall \/ CopyAssignCall \/ MoveAssignCall \/ LessCall

SpecTag == InitTag /\ [][NextTag]_vars

(***************************************************************************)
(* Claims about the lifecycle.                                             *)
(***************************************************************************)
Range(f) == {f[i] : i \in DOMAIN f}
NoDuplicates(f) == \A i, j \in DOMAIN f : f[i] = f[j] => i = j
LiveIds(h) == {i \in DOMAIN h : h[i].st = "live"}
IsEmptyPayload(av) == av.pod = <<>> /\ av.keys = <<>> /\ av.elems = <<>>

\* the storages the program's objects own, nested ones included
AllRefs == RefsOf(slots["x"], heap) \o RefsOf(slots["y"], heap)

\* v has exactly the payload its tag names, and so has every value in it
RECURSIVE ValidObj(_, _)
ValidObj(v, h) ==
    /\ v.live = Member(v.tag)
    /\ IF v.tag \in Owning
       THEN /\ HCell(h, v.ref).st = "live"
            /\ \A i \in DOMAIN HCell(h, v.ref).elems : ValidObj(HCell(h, v.ref).elems[i], h)
       ELSE v.ref = 0

MoveOps == {"MoveAssign", "MoveConstruct"}
CopyOps == {"CopyAssign", "CopyConstruct"}

\* the step is a move of a String, Blob, Array or Object from s into d
MoveStep(d, s) ==
    /\ last'.op \in MoveOps /\ last'.dst = d /\ last'.src = s
    /\ d # s /\ slots[s].tag \in Owning

\* what the move gives the destination, and the state it leaves the source in
MoveGives(d, s) ==
    /\ slots'[d].alive /\ slots'[d].tag = slots[s].tag
    /\ AbsOf(slots'[d], heap') = AbsOf(slots[s], heap)
    /\ slots'[d].ref = slots[s].ref
    /\ heap'[slots[s].ref] = heap[slots[s].ref]
    /\ slots'[s].alive /\ ValidObj(slots'[s], heap')
    /\ slots'[s].ref # slots'[d].ref

SameKindBefore(d, s) == slots[d].alive /\ slots[d].tag = slots[s].tag

\* C5 as stated: after the move the destination has the source's kind and
\* the very storage the source had, and the source is valid and empty.
C5_MoveLeavesSourceEmpty ==
    [][\A d, s \in Slots : MoveStep(d, s) =>
           /\ MoveGives(d, s)
           /\ IsEmptyPayload(AbsOf(slots'[s], heap'))]_vars

\* C5 amended: the source is left empty when the destination was constructed
\* by the move or had another kind; a destination that already had the
\* source's kind hands its previous payload to the source.
C5_MoveTransfers ==
    [][\A d, s \in Slots : MoveStep(d, s) =>
           /\ MoveGives(d, s)
           /\ IF SameKindBefore(d, s)
              THEN /\ AbsOf(slots'[s], heap') = AbsOf(slots[d], heap)
                   /\ slots'[s].ref = slots[d].ref
              ELSE IsEmptyPayload(AbsOf(slots'[s], heap'))]_vars

\* an Array holding a String has been moved into an object that held an
\* Array with an element, which the source now has
C5_Witness ==
    /\ last.op = "MoveAssign" /\ last.dst # last.src
    /\ slots[last.dst].tag = "Array" /\ slots[last.src].tag = "Array"
    /\ AbsOf(slots[last.dst], heap).elems = <<StringV(<<1>>)>>
    /\ Len(AbsOf(slots[last.src], heap).elems) = 1

CopyStep(d, s) == last'.op \in CopyOps /\ last'.dst = d /\ last'.src = s

Disjoint(f, g) == Range(f) \cap Range(g) = {}

\* C6: a copy has the source's kind and a payload equal to the source's,
\* leaves the source as it was and owns no storage the source owns, at any
\* depth; and no call changes an object other than the ones it is made on.
C6_CopyIndependent ==
    [][/\ \A d, s \in Slots : CopyStep(d, s) =>
              /\ slots'[d].alive /\ ValidObj(slots'[d], heap')
              /\ AbsOf(slots'[d], heap') = AbsOf(slots[s], heap)
              /\ AbsOf(slots'[s], heap') = AbsOf(slots[s], heap)
              /\ ValidObj(slots'[s], heap')
              /\ d # s => /\ slots'[s] = slots[s]
                          /\ Disjoint(RefsOf(slots'[d], heap'), RefsOf(slots'[s], heap'))
       /\ \A t \in Slots :
              t # last'.dst /\ ~(t = last'.src /\ last'.op \in MoveOps) =>
                  /\ slots'[t] = slots[t]
                  /\ AbsOf(slots'[t], heap') = AbsOf(slots[t], heap)]_vars

\* an Array holding a String has been copied into another object
C6_Witness ==
    /\ last.op \in CopyOps /\ last.dst # last.src
    /\ AbsOf(slots[last.src], heap) = ArrayV(<<StringV(<<1>>)>>)
    /\ AbsOf(slots[last.dst], heap) = ArrayV(<<StringV(<<1>>)>>)

\* the default payload SwitchTo constructs, as the claim states it
ClaimDefault(t) ==
    CASE t = "Timestamp" -> TimestampV(<<0, 0>>)
      [] t = "ServerTimestamp" -> ServerTimestampV(<<0, 0>>, <<0, 0>>)
      [] t = "GeoPoint" -> GeoPointV(<<0, 0>>)
      [] t = "String" -> StringV(<<>>)
      [] t = "Blob" -> BlobV(<<>>)
      [] t = "Array" -> ArrayV(<<>>)
      [] t = "Object" -> ObjectV(<<>>, <<>>)

\* C9: every object always has exactly the payload its tag names and no call
\* touches another member; SwitchTo to the current kind changes nothing, and
\* SwitchTo to another kind destroys the old payload and constructs the new
\* kind's default payload.
C9_OnePayload ==
    /\ [](/\ bad = "ok"
          /\ \A s \in AliveSlots : ValidObj(slots[s], heap))
    /\ [][last'.op = "SwitchTo" =>
              LET s == last'.dst
                  t == last'.arg
              IN  IF slots[s].tag = t
                  THEN slots'[s] = slots[s] /\ heap' = heap /\ last'.rel = 0
                  ELSE /\ last'.rel = Len(RefsOf(slots[s], heap))
                       /\ slots'[s].tag = t
                       /\ Member(t) # NoMember =>
                              AbsOf(slots'[s], heap') = ClaimDefault(t)]_vars

\* an Array holding a String has been switched to a ServerTimestamp
C9_Witness ==
    /\ last.op = "SwitchTo" /\ last.rel = 2
    /\ AbsOf(slots[last.dst], heap) = ServerTimestampV(<<0, 0>>, <<0, 0>>)

\* C10: no storage is ever destroyed twice, every storage that has been
\* constructed and not destroyed is owned by exactly one payload, so that
\* nothing is left once every object is destroyed; destroying a Null value
\* releases nothing.
C10_ReleasedOnce ==
    /\ [](/\ bad = "ok"
          /\ NoDuplicates(AllRefs)
          /\ Range(AllRefs) = LiveIds(heap)
          /\ AliveSlots = {} => LiveIds(heap) = {})
    /\ [][last'.op = "Destroy" /\ slots[last'.dst].tag = "Null" =>
              last'.rel = 0 /\ heap' = heap]_vars

\* the last object, a container holding a String, has been destroyed
C10_Witness ==
    /\ last.op = "Destroy" /\ last.rel = 2
    /\ AliveSlots = {} /\ LiveIds(heap) = {}

\* C7: a call that an unsupported tag reaches ends in the assertion.
C7_FailFast == last.uns => last.ret = "asserted"
====
